---- MODULE Spec2Model ----
(***************************************************************************)
(* Strength Program Tracker (streamlit_app.py): the compliance rules        *)
(* (parse_reps, reps_meet_prescription, compliance_check), the access gate  *)
(* (access_gate) and the workout log (ensure_log_exists, append_log, main). *)
(*                                                                         *)
(* A Python str that the code inspects (split, strip, int, lower,           *)
(* startswith) is a sequence of one-character strings; a str that is only   *)
(* compared or passed on is a TLA+ string.  A Python call that may raise    *)
(* returns a record with a field "raised".                                  *)
(***************************************************************************)
EXTENDS Integers, Sequences, FiniteSets, TLC

VARIABLES
    args,           \* the arguments of the rule function being called
    pc,             \* "call" before the rule function runs, "done" after
    ret,            \* what the rule function returned (or that it raised)
    typed,          \* the segments typed into "Reps by set" (rows of SegTable)
    secrets_pw,     \* st.secrets["APP_PASSWORD"], "" when not set
    env_pw,         \* os.environ["APP_PASSWORD"], "" when not set
    program_ok,     \* whether load_program() returns (program.csv is valid)
    access_stage,   \* st.session_state.access_stage
    authed,         \* st.session_state.authed
    acknowledged,   \* st.session_state.acknowledged
    event,          \* the widget event the last script run handled
    log_exists,     \* os.path.exists(LOG_PATH)
    log             \* the data rows of workouts_log.csv, oldest first

vars == <<args, pc, ret, typed, secrets_pw, env_pw, program_ok,
          access_stage, authed, acknowledged, event, log_exists, log>>

ruleVars == <<args, pc, ret, typed>>
configVars == <<secrets_pw, env_pw, program_ok>>
sessionVars == <<secrets_pw, env_pw, program_ok, access_stage, authed,
                 acknowledged, event, log_exists, log>>

-----------------------------------------------------------------------------
(* Bounds of the model. *)

\* reps_by_set texts have at most MaxSegs comma-separated segments
MaxSegs == 3
\* sets_prescribed ranges over -NegSets .. MaxSets
MaxSets == 3
NegSets == 1
\* at most MaxLog rows are saved in one session
MaxLog == 2

-----------------------------------------------------------------------------
(* Python str and list operations. *)

Whitespace == {" ", "\t"}

DigitChars == <<"0", "1", "2", "3", "4", "5", "6", "7", "8", "9">>

IsDigit(c) == \E i \in 1..10 : DigitChars[i] = c

DigitVal(c) == (CHOOSE i \in 1..10 : DigitChars[i] = c) - 1

UpperChars == <<"A", "B", "C", "D", "E", "F", "G", "H", "I", "J", "K", "L", "M",
                "N", "O", "P", "Q", "R", "S", "T", "U", "V", "W", "X", "Y", "Z">>

LowerChars == <<"a", "b", "c", "d", "e", "f", "g", "h", "i", "j", "k", "l", "m",
                "n", "o", "p", "q", "r", "s", "t", "u", "v", "w", "x", "y", "z">>

\* str.lower(), one character
LowerChar(c) ==
    IF \E i \in 1..26 : UpperChars[i] = c
    THEN LowerChars[CHOOSE i \in 1..26 : UpperChars[i] = c]
    ELSE c

\* str.lower()
lower(s) == [i \in 1..Len(s) |-> LowerChar(s[i])]

\* str.startswith(prefix)
startswith(s, prefix) ==
    /\ Len(s) >= Len(prefix)
    /\ \A i \in 1..Len(prefix) : s[i] = prefix[i]

\* c in s, for a one-character c
Contains(s, c) == \E i \in 1..Len(s) : s[i] = c

RECURSIVE lstrip(_)
lstrip(s) ==
    IF s # <<>> /\ Head(s) \in Whitespace THEN lstrip(Tail(s)) ELSE s

RECURSIVE rstrip(_)
rstrip(s) ==
    IF s # <<>> /\ s[Len(s)] \in Whitespace
    THEN rstrip(SubSeq(s, 1, Len(s) - 1))
    ELSE s

\* str.strip()
strip(s) == rstrip(lstrip(s))

\* str.split(sep) for a one-character sep: always at least one part
RECURSIVE split(_, _)
split(s, sep) ==
    IF ~Contains(s, sep) THEN <<s>>
    ELSE LET i == CHOOSE k \in 1..Len(s) :
                      s[k] = sep /\ \A j \in 1..(k - 1) : s[j] # sep
         IN <<SubSeq(s, 1, i - 1)>> \o split(SubSeq(s, i + 1, Len(s)), sep)

\* the value of a non-empty run of decimal digits
RECURSIVE DecimalValue(_)
DecimalValue(ds) ==
    IF ds = <<>> THEN 0
    ELSE 10 * DecimalValue(SubSeq(ds, 1, Len(ds) - 1)) + DigitVal(ds[Len(ds)])

\* int(s) for a str s: surrounding whitespace is dropped, one sign is allowed,
\* then there must be one or more digits; anything else raises ValueError
\* (the texts of the model hold ASCII digits only and no "_")
int(s) ==
    LET t == strip(s)
        signed == t # <<>> /\ Head(t) \in {"+", "-"}
        ds == IF signed THEN Tail(t) ELSE t
    IN IF ds # <<>> /\ \A i \in 1..Len(ds) : IsDigit(ds[i])
       THEN [raised |-> FALSE,
             val |-> IF signed /\ Head(t) = "-" THEN 0 - DecimalValue(ds)
                     ELSE DecimalValue(ds)]
       ELSE [raised |-> TRUE, val |-> 0]

\* SlicePrefix with a fault: no truncation
SliceNothing(lst, n) == lst

\* lst[:n]
SlicePrefix(lst, n) ==
    LET stop == IF n >= 0 THEN n ELSE Len(lst) + n
    IN IF stop <= 0 THEN <<>>
       ELSE IF stop >= Len(lst) THEN lst
       ELSE SubSeq(lst, 1, stop)

\* [f(x) for x in lst if keep(x)] for the comprehension of parse_reps
RECURSIVE NonBlankStripped(_)
NonBlankStripped(parts) ==
    IF parts = <<>> THEN <<>>
    ELSE IF strip(Head(parts)) # <<>>
         THEN <<strip(Head(parts))>> \o NonBlankStripped(Tail(parts))
         ELSE NonBlankStripped(Tail(parts))

-----------------------------------------------------------------------------
(* Rules. *)

\* RepParts with a fault: blank segments are kept
RepPartsKeepBlanks(reps_text) ==
    LET parts == split(reps_text, ",")
    IN [i \in 1..Len(parts) |-> strip(parts[i])]

\* parts = [p.strip() for p in str(reps_text).split(",") if p.strip()]
RepParts(reps_text) == NonBlankStripped(split(reps_text, ","))

\* parse_reps with a fault: parts that are no integer are skipped instead of raising
RECURSIVE IntsOf(_)
IntsOf(parts) ==
    IF parts = <<>> THEN <<>>
    ELSE IF int(Head(parts)).raised THEN IntsOf(Tail(parts))
    ELSE <<int(Head(parts)).val>> \o IntsOf(Tail(parts))

parse_reps_skipping(reps_text) ==
    [raised |-> FALSE, val |-> IntsOf(RepParts(reps_text))]

\* parse_reps: raises ValueError when some part is no integer
parse_reps(reps_text) ==
    LET parts == RepParts(reps_text)
    IN IF \E i \in 1..Len(parts) : int(parts[i]).raised
       THEN [raised |-> TRUE, val |-> <<>>]
       ELSE [raised |-> FALSE,
             val |-> [i \in 1..Len(parts) |-> int(parts[i]).val]]

Raised == [raised |-> TRUE, ok |-> FALSE, reason |-> ""]

Return(ok, reason) == [raised |-> FALSE, ok |-> ok, reason |-> reason]

\* RangeBranch with a fault: the upper bound of the range is enforced too
RangeBranchEnforcesHigh(reps_prescribed, reps_list) ==
    LET parts == split(reps_prescribed, "-")
    IN IF Len(parts) # 2 THEN Raised
       ELSE LET lo == int(strip(parts[1]))
                hi == int(strip(parts[2]))
            IN IF lo.raised \/ hi.raised THEN Raised
               ELSE IF \E i \in 1..Len(reps_list) :
                          reps_list[i] < lo.val \/ reps_list[i] > hi.val
                    THEN Return(FALSE, "Some sets below minimum rep target")
                    ELSE Return(TRUE, "")

\* the branch of reps_meet_prescription for a prescription with a "-"
RangeBranch(reps_prescribed, reps_list) ==
    LET parts == split(reps_prescribed, "-")
    IN IF Len(parts) # 2 THEN Raised    \* lo, _hi = ... cannot unpack
       ELSE LET lo == int(strip(parts[1]))
            IN IF lo.raised THEN Raised
               ELSE IF \E i \in 1..Len(reps_list) : reps_list[i] < lo.val
                    THEN Return(FALSE, "Some sets below minimum rep target")
                    ELSE Return(TRUE, "")

\* the branch of reps_meet_prescription for a single target
TargetBranch(reps_prescribed, reps_list) ==
    LET target == int(reps_prescribed)
    IN IF target.raised THEN Raised
       ELSE IF \E i \in 1..Len(reps_list) : reps_list[i] < target.val
            THEN Return(FALSE, "Some sets below prescribed reps")
            ELSE Return(TRUE, "")

\* the body of the try statement of reps_meet_prescription
MatchBody(sets_prescribed, reps_prescribed, reps_by_set) ==
    LET parsed == parse_reps(reps_by_set)
    IN IF parsed.raised THEN Raised
       ELSE LET reps_list == SlicePrefix(parsed.val, sets_prescribed)
            IN IF Len(reps_list) < sets_prescribed
               THEN Return(FALSE, "Fewer sets logged than prescribed")
               ELSE LET rp == strip(reps_prescribed)
                    IN IF Contains(rp, "-")
                       THEN RangeBranch(rp, reps_list)
                       ELSE TargetBranch(rp, reps_list)

\* ExceptHandler with a fault: no except clause: the exception leaves the matcher
NoExceptHandler(body) == body

\* except Exception: return False, "Could not parse reps_by_set"
ExceptHandler(body) ==
    IF body.raised THEN Return(FALSE, "Could not parse reps_by_set") ELSE body

reps_meet_prescription(sets_prescribed, reps_prescribed, reps_by_set) ==
    ExceptHandler(MatchBody(sets_prescribed, reps_prescribed, reps_by_set))

BARBELL == <<"b", "a", "r", "b", "e", "l", "l">>
RED == <<"R", "e", "d">>
YELLOW == <<"Y", "e", "l", "l", "o", "w">>

Verdict(verdict, reasons) ==
    [raised |-> FALSE, verdict |-> verdict, reasons |-> reasons]

\* the three hard stops, in the order the code tests them
PainStop(pain) == pain \in {"Moderate", "Severe"}

BarbellStop(equipment, barbell_same_weight) ==
    lower(equipment) = BARBELL /\ ~barbell_same_weight

RedStop(set_quality) == startswith(set_quality, RED)

\* HardStop with a fault: the barbell rule tested before the pain rule
HardStopBarbellFirst(equipment, pain, set_quality, barbell_same_weight) ==
    IF BarbellStop(equipment, barbell_same_weight)
    THEN <<"Barbell working weight changed across sets">>
    ELSE IF PainStop(pain) THEN <<"Pain is Moderate/Severe">>
    ELSE IF RedStop(set_quality) THEN <<"Set quality marked Red">>
    ELSE <<>>

\* the return of the first hard stop that holds, <<>> when none does
HardStop(equipment, pain, set_quality, barbell_same_weight) ==
    IF PainStop(pain) THEN <<"Pain is Moderate/Severe">>
    ELSE IF BarbellStop(equipment, barbell_same_weight)
    THEN <<"Barbell working weight changed across sets">>
    ELSE IF RedStop(set_quality) THEN <<"Set quality marked Red">>
    ELSE <<>>

\* SoftReasons with a fault: the quality warning appended before the form warning
SoftReasonsQualityFirst(form, set_quality, m) ==
    (IF startswith(set_quality, YELLOW)
     THEN <<"Set quality marked Yellow">> ELSE <<>>)
    \o (IF form = "Bad" THEN <<"Form marked Bad">> ELSE <<>>)
    \o (IF ~m.ok THEN <<m.reason>> ELSE <<>>)

\* reasons.append(...) for the soft warnings, in the order of the code
SoftReasons(form, set_quality, m) ==
    (IF form = "Bad" THEN <<"Form marked Bad">> ELSE <<>>)
    \o (IF startswith(set_quality, YELLOW)
        THEN <<"Set quality marked Yellow">> ELSE <<>>)
    \o (IF ~m.ok THEN <<m.reason>> ELSE <<>>)

\* FinalVerdict with a fault: WARN returned whether or not there is a reason
FinalVerdictAlwaysWarn(reasons) == Verdict("WARN", reasons)

\* if reasons: return "WARN", reasons; return "PASS", reasons
FinalVerdict(reasons) ==
    IF reasons # <<>> THEN Verdict("WARN", reasons) ELSE Verdict("PASS", reasons)

\* an exception of the callee that compliance_check does not catch
Propagated == [raised |-> TRUE, verdict |-> "", reasons |-> <<>>]

compliance_check(equipment, sets_prescribed, reps_prescribed, reps_by_set, pain, form, set_quality, barbell_same_weight) ==
    LET stop == HardStop(equipment, pain, set_quality, barbell_same_weight)
    IN IF stop # <<>> THEN Verdict("FAIL", stop)
       ELSE LET m == reps_meet_prescription(sets_prescribed, reps_prescribed,
                                            reps_by_set)
            IN IF m.raised THEN Propagated
               ELSE FinalVerdict(SoftReasons(form, set_quality, m))

-----------------------------------------------------------------------------
(* The inputs the rule functions are called with.  Each table row gives the  *)
(* text handed to the code and, beside it, what the text says.               *)

\* what a user types between two commas of "Reps by set"; same is the row
\* that spells the same entry without surrounding blanks
SegTable ==
    << [text |-> <<>>, kind |-> "blank", val |-> 0, same |-> 1],
       [text |-> <<"3">>, kind |-> "int", val |-> 3, same |-> 2],
       [text |-> <<"5">>, kind |-> "int", val |-> 5, same |-> 3],
       [text |-> <<" ", "5", " ">>, kind |-> "int", val |-> 5, same |-> 3],
       [text |-> <<"1", "2">>, kind |-> "int", val |-> 12, same |-> 5],
       [text |-> <<"x">>, kind |-> "other", val |-> 0, same |-> 6],
       [text |-> <<" ">>, kind |-> "blank", val |-> 0, same |-> 1],
       [text |-> <<"5", " ", "r", "e", "p", "s">>, kind |-> "other", val |-> 0, same |-> 8] >>

\* ",".join(segments)
RECURSIVE JoinSegs(_)
JoinSegs(segs) ==
    IF segs = <<>> THEN <<>>
    ELSE IF Len(segs) = 1 THEN segs[1]
    ELSE segs[1] \o <<",">> \o JoinSegs(Tail(segs))

SegText(typ) == JoinSegs([i \in 1..Len(typ) |-> SegTable[typ[i]].text])

\* every way of typing 1 .. MaxSegs segments
Typings == UNION { [1..n -> 1..Len(SegTable)] : n \in 1..MaxSegs }

\* reps_prescribed cells of program.csv: dash says whether the text holds a
\* "-", dashes how many; lowOk and low are the part before the first "-" as
\* an integer; numOk and num the whole text as an integer
PrescTable ==
    { [text |-> <<"5">>, dashes |-> 0, lowOk |-> FALSE, low |-> 0, numOk |-> TRUE, num |-> 5],
      [text |-> <<" ", "5", " ">>, dashes |-> 0, lowOk |-> FALSE, low |-> 0, numOk |-> TRUE, num |-> 5],
      [text |-> <<"4", "-", "8">>, dashes |-> 1, lowOk |-> TRUE, low |-> 4, numOk |-> FALSE, num |-> 0],
      [text |-> <<"4", " ", "-", " ", "8">>, dashes |-> 1, lowOk |-> TRUE, low |-> 4, numOk |-> FALSE, num |-> 0],
      [text |-> <<"1", "3", "-", "1", "5">>, dashes |-> 1, lowOk |-> TRUE, low |-> 13, numOk |-> FALSE, num |-> 0],
      [text |-> <<"4", "-", "8", "-", "1", "2">>, dashes |-> 2, lowOk |-> TRUE, low |-> 4, numOk |-> FALSE, num |-> 0],
      [text |-> <<"-", "4">>, dashes |-> 1, lowOk |-> FALSE, low |-> 0, numOk |-> TRUE, num |-> -4],
      [text |-> <<"x">>, dashes |-> 0, lowOk |-> FALSE, low |-> 0, numOk |-> FALSE, num |-> 0],
      [text |-> <<"4", "-", "x">>, dashes |-> 1, lowOk |-> TRUE, low |-> 4, numOk |-> FALSE, num |-> 0],
      [text |-> <<"x", "-", "8">>, dashes |-> 1, lowOk |-> FALSE, low |-> 0, numOk |-> FALSE, num |-> 0],
      [text |-> <<"5", ".", "0">>, dashes |-> 0, lowOk |-> FALSE, low |-> 0, numOk |-> FALSE, num |-> 0],
      [text |-> <<>>, dashes |-> 0, lowOk |-> FALSE, low |-> 0, numOk |-> FALSE, num |-> 0] }

PrescRow(text) == CHOOSE r \in PrescTable : r.text = text

\* the equipment column: barbell says whether the text is "barbell" up to case
EquipTable ==
    { [text |-> <<"B", "a", "r", "b", "e", "l", "l">>, barbell |-> TRUE],
      [text |-> <<"B", "A", "R", "B", "E", "L", "L">>, barbell |-> TRUE],
      [text |-> <<"D", "u", "m", "b", "b", "e", "l", "l">>, barbell |-> FALSE],
      [text |-> <<"B", "a", "r", "b", "e", "l", "l", " ">>, barbell |-> FALSE] }

EquipRow(text) == CHOOSE r \in EquipTable : r.text = text

\* the options of the "Set quality (overall)" selectbox
QualityTable ==
    { [text |-> <<"G", "r", "e", "e", "n", " ", "(", "c", "l", "e", "a", "n", ")">>, colour |-> "Green"],
      [text |-> <<"Y", "e", "l", "l", "o", "w", " ", "(", "s", "l", "o", "w", "e", "d", ")">>, colour |-> "Yellow"],
      [text |-> <<"R", "e", "d", " ", "(", "m", "i", "s", "s", "e", "d", "/", "u", "g", "l", "y", ")">>, colour |-> "Red"] }

QualityRow(text) == CHOOSE r \in QualityTable : r.text = text

\* the options of the "Pain" and "Form" selectboxes
PainOptions == {"None", "Mild", "Moderate", "Severe"}
FormOptions == {"Good", "OK", "Bad"}

SetsRange == (0 - NegSets)..MaxSets

DUMBBELL == <<"D", "u", "m", "b", "b", "e", "l", "l">>
GREEN_CLEAN == <<"G", "r", "e", "e", "n", " ", "(", "c", "l", "e", "a", "n", ")">>

-----------------------------------------------------------------------------
(* Calling the rule functions. *)

Arguments(equipment, sets_prescribed, reps_prescribed, reps_by_set, pain, form, set_quality, barbell_same_weight) ==
    [equipment |-> equipment, sets_prescribed |-> sets_prescribed,
     reps_prescribed |-> reps_prescribed, reps_by_set |-> reps_by_set,
     pain |-> pain, form |-> form, set_quality |-> set_quality,
     barbell_same_weight |-> barbell_same_weight]

NoArgs == Arguments(<<>>, 0, <<>>, <<>>, "", "", <<>>, TRUE)

NoRet == [raised |-> FALSE]

NoEvent == [type |-> "none", pw |-> "", ex |-> 0, entry |-> 0]

\* a session in which nothing has happened yet
SessionStart ==
    /\ access_stage = "disclaimer"
    /\ authed = FALSE
    /\ acknowledged = FALSE
    /\ event = NoEvent
    /\ log_exists = FALSE
    /\ log = <<>>

\* reps_meet_prescription(sets_prescribed, reps_prescribed, reps_by_set)
CallMatcher ==
    /\ pc = "call"
    /\ ret' = reps_meet_prescription(args.sets_prescribed, args.reps_prescribed,
                                     args.reps_by_set)
    /\ pc' = "done"
    /\ UNCHANGED <<args, typed, sessionVars>>

\* compliance_check(equipment, ..., barbell_same_weight)
CallCheck ==
    /\ pc = "call"
    /\ ret' = compliance_check(args.equipment, args.sets_prescribed,
                               args.reps_prescribed, args.reps_by_set,
                               args.pain, args.form, args.set_quality,
                               args.barbell_same_weight)
    /\ pc' = "done"
    /\ UNCHANGED <<args, typed, sessionVars>>

\* the matcher on every typing of up to MaxSegs segments, every prescription
\* of PrescTable and every sets_prescribed of SetsRange
InitMatch ==
    /\ typed \in Typings
    /\ \E sp \in SetsRange, rp \in PrescTable :
          args = Arguments(DUMBBELL, sp, rp.text, SegText(typed),
                           "None", "Good", GREEN_CLEAN, TRUE)
    /\ pc = "call"
    /\ ret = NoRet
    /\ secrets_pw = "" /\ env_pw = "" /\ program_ok = TRUE
    /\ SessionStart

NextMatch == CallMatcher

SpecMatch == InitMatch /\ [][NextMatch]_vars

\* the typings and prescriptions compliance_check is called with
\* the typings compliance_check is called with: "", " 5 ,5", "3, 5 ", "x,5",
\* "5, 5 ,3", " 5 ,,12,", "5 reps,5"
CheckTypings ==
    { <<1>>, <<4, 3>>, <<2, 4>>, <<6, 3>>, <<3, 4, 2>>, <<4, 1, 5, 1>>, <<8, 3>> }

InitCheck ==
    /\ typed \in CheckTypings
    /\ \E eq \in EquipTable, sp \in SetsRange, rp \in PrescTable,
          pain \in PainOptions, form \in FormOptions, q \in QualityTable,
          same \in BOOLEAN :
          args = Arguments(eq.text, sp, rp.text, SegText(typed), pain, form,
                           q.text, same)
    /\ pc = "call"
    /\ ret = NoRet
    /\ secrets_pw = "" /\ env_pw = "" /\ program_ok = TRUE
    /\ SessionStart

NextCheck == CallCheck

SpecCheck == InitCheck /\ [][NextCheck]_vars

-----------------------------------------------------------------------------
(* The session: access gate, Save button, workout log. *)

\* get_app_password(): secrets, then the environment, then "changeme"
get_app_password(secrets, env) ==
    IF secrets # "" THEN secrets
    ELSE IF env # "" THEN env
    ELSE "changeme"

\* PasswordAccepted with a fault: the default password is accepted whatever is configured
PasswordOrDefaultAccepted(pw_input, app_pw) ==
    pw_input = app_pw \/ pw_input = "changeme"

\* if pw_input == app_pw
PasswordAccepted(pw_input, app_pw) == pw_input = app_pw

\* st.button("Continue", disabled=not acknowledged) can be clicked
ContinueEnabled(ack) == ack

\* the log file as (exists, rows)
LogFile(exists, rows) == [exists |-> exists, rows |-> rows]

\* ensure_log_exists with a fault: the header is written on every call, over the rows
ensure_log_rewrites(file) == LogFile(TRUE, <<>>)

\* ensure_log_exists(): writes the header only when the file is missing
ensure_log_exists(file) ==
    IF ~file.exists THEN LogFile(TRUE, <<>>) ELSE file

\* append_log(row): to_csv(LOG_PATH, mode="a", header=False)
append_log(file, row) ==
    LET f == ensure_log_exists(file)
    IN LogFile(f.exists, Append(f.rows, row))

\* read_log(): leaves the rows as they are
read_log(file) == ensure_log_exists(file)

\* "; ".join(reasons)
RECURSIVE JoinReasons(_)
JoinReasons(reasons) ==
    IF reasons = <<>> THEN ""
    ELSE IF Len(reasons) = 1 THEN reasons[1]
    ELSE reasons[1] \o "; " \o JoinReasons(Tail(reasons))

\* program[program["day"] == day], for the day selected on the page
Program ==
    << [day |-> "A", group |-> "Legs", exercise_id |-> "SQ",
        exercise_name |-> "Back Squat", equipment |-> <<"B", "a", "r", "b", "e", "l", "l">>,
        sets_prescribed |-> 2, reps_prescribed |-> <<"5">>,
        load_target |-> "225", load_unit |-> "lb"],
       [day |-> "A", group |-> "Back", exercise_id |-> "ROW",
        exercise_name |-> "One-Arm Row", equipment |-> <<"D", "u", "m", "b", "b", "e", "l", "l">>,
        sets_prescribed |-> 2, reps_prescribed |-> <<"4", "-", "8">>,
        load_target |-> "50", load_unit |-> "lbs each"] >>

\* what the widgets hold when "Save this exercise" is clicked; same is the
\* value of the barbell checkbox where the page shows one
Entry(reps_by_set, pain, form, set_quality, same, rir_last_set, notes) ==
    [workout_date |-> "2026-01-05", week |-> 1, sets_completed |-> 2,
     reps_by_set |-> reps_by_set, load_used |-> 45,
     load_used_unit |-> "plates only", rir_last_set |-> rir_last_set,
     form |-> form, pain |-> pain, set_quality |-> set_quality,
     same |-> same, notes |-> notes]

Entries ==
    << Entry(<<"5", ",", "5">>, "None", "Good", <<"G", "r", "e", "e", "n", " ", "(", "c", "l", "e", "a", "n", ")">>, TRUE, 2, ""),
       Entry(<<"3", ",", " ", "5">>, "None", "Bad", <<"Y", "e", "l", "l", "o", "w", " ", "(", "s", "l", "o", "w", "e", "d", ")">>, TRUE, 0, "slow"),
       Entry(<<"f", "i", "v", "e", ",", "f", "i", "v", "e">>, "None", "Good", <<"G", "r", "e", "e", "n", " ", "(", "c", "l", "e", "a", "n", ")">>, TRUE, 2, ""),
       Entry(<<"5", ",", "5">>, "Severe", "Bad", <<"R", "e", "d", " ", "(", "m", "i", "s", "s", "e", "d", "/", "u", "g", "l", "y", ")">>, FALSE, 2, "knee"),
       Entry(<<"5", ",", "5">>, "None", "Good", <<"G", "r", "e", "e", "n", " ", "(", "c", "l", "e", "a", "n", ")">>, FALSE, 2, ""),
       Entry(<<"5", ",", "5", ",">>, "Mild", "OK", <<"R", "e", "d", " ", "(", "m", "i", "s", "s", "e", "d", "/", "u", "g", "l", "y", ")">>, TRUE, 1, "") >>

PwInputs == {"", "changeme", "s3cret", "envpw"}

\* barbell_same_weight = True, replaced by the checkbox for a barbell
SameWeight(ex, e) ==
    IF lower(ex.equipment) = BARBELL THEN e.same ELSE TRUE

\* row = dict(...) of the Save handler
LogRow(ex, e, verdict) ==
    [workout_date |-> e.workout_date, week |-> e.week, day |-> ex.day,
     group |-> ex.group, exercise_id |-> ex.exercise_id,
     exercise_name |-> ex.exercise_name, equipment |-> ex.equipment,
     sets_prescribed |-> ex.sets_prescribed,
     reps_prescribed |-> ex.reps_prescribed,
     load_target |-> ex.load_target, load_unit |-> ex.load_unit,
     sets_completed |-> e.sets_completed, reps_by_set |-> e.reps_by_set,
     load_used |-> e.load_used, load_used_unit |-> e.load_used_unit,
     rir_last_set |-> e.rir_last_set, form |-> e.form, pain |-> e.pain,
     set_quality |-> e.set_quality,
     barbell_same_weight |-> IF SameWeight(ex, e) THEN 1 ELSE 0,
     compliance |-> verdict.verdict,
     reasons |-> JoinReasons(verdict.reasons),
     notes |-> e.notes]

\* main() from load_program() to the exercise widgets: ensure_log_exists()
MainPrologue(file) == ensure_log_exists(file)

\* main() after the exercise widgets: read_log() for the download button and
\* read_log() for the dashboard
MainEpilogue(file) == read_log(read_log(file))

\* main() after access_gate() returned True, no button clicked: a bad
\* program.csv stops the run inside load_program()
PageRun(file) ==
    IF program_ok THEN MainEpilogue(MainPrologue(file)) ELSE file

\* main() with "Save this exercise" clicked for ex: compliance_check, then
\* append_log; an exception out of compliance_check would end the run
SaveRun(file, ex, e) ==
    LET verdict == compliance_check(ex.equipment, ex.sets_prescribed,
                                    ex.reps_prescribed, e.reps_by_set, e.pain,
                                    e.form, e.set_quality, SameWeight(ex, e))
    IN IF verdict.raised THEN MainPrologue(file)
       ELSE MainEpilogue(append_log(MainPrologue(file), LogRow(ex, e, verdict)))

Event(type, pw, ex, entry) == [type |-> type, pw |-> pw, ex |-> ex, entry |-> entry]

\* the checkbox "I acknowledge and agree" is toggled on the disclaimer screen
ToggleAcknowledge ==
    /\ ~authed /\ access_stage = "disclaimer"
    /\ acknowledged' = ~acknowledged
    /\ event' = Event("toggle", "", 0, 0)
    /\ UNCHANGED <<access_stage, authed, log_exists, log>>
    /\ UNCHANGED <<ruleVars, configVars>>

\* "Continue" is clicked on the disclaimer screen
Continue ==
    /\ ~authed /\ access_stage = "disclaimer"
    /\ ContinueEnabled(acknowledged)
    /\ access_stage' = IF acknowledged THEN "password" ELSE access_stage
    /\ event' = Event("continue", "", 0, 0)
    /\ UNCHANGED <<authed, acknowledged, log_exists, log>>
    /\ UNCHANGED <<ruleVars, configVars>>

\* "Back" is clicked on the password screen
Back ==
    /\ ~authed /\ access_stage = "password"
    /\ access_stage' = "disclaimer"
    /\ event' = Event("back", "", 0, 0)
    /\ UNCHANGED <<authed, acknowledged, log_exists, log>>
    /\ UNCHANGED <<ruleVars, configVars>>

\* "Enter Application" is clicked with pw_input in the password field; a
\* correct password reruns the script, which now passes the gate
EnterApplication(pw_input) ==
    /\ ~authed /\ access_stage = "password"
    /\ event' = Event("enter", pw_input, 0, 0)
    /\ IF PasswordAccepted(pw_input, get_app_password(secrets_pw, env_pw))
       THEN /\ authed' = TRUE
            /\ access_stage' = "app"
            /\ LET f == PageRun(LogFile(log_exists, log))
               IN log_exists' = f.exists /\ log' = f.rows
       ELSE UNCHANGED <<authed, access_stage, log_exists, log>>
    /\ UNCHANGED acknowledged
    /\ UNCHANGED <<ruleVars, configVars>>

\* any other widget change reruns the script
Rerun ==
    /\ event' = Event("rerun", "", 0, 0)
    /\ IF authed
       THEN /\ access_stage' = "app"
            /\ LET f == PageRun(LogFile(log_exists, log))
               IN log_exists' = f.exists /\ log' = f.rows
       ELSE UNCHANGED <<access_stage, log_exists, log>>
    /\ UNCHANGED <<authed, acknowledged>>
    /\ UNCHANGED <<ruleVars, configVars>>

\* "Save this exercise" is clicked for exercise ex with the widgets holding e
Save(ex, e) ==
    /\ authed /\ program_ok
    /\ Len(log) < MaxLog
    /\ access_stage' = "app"
    /\ event' = Event("save", "", ex, e)
    /\ LET f == SaveRun(LogFile(log_exists, log), Program[ex], Entries[e])
       IN log_exists' = f.exists /\ log' = f.rows
    /\ UNCHANGED <<authed, acknowledged>>
    /\ UNCHANGED <<ruleVars, configVars>>

Init ==
    /\ secrets_pw \in {"", "s3cret"}
    /\ env_pw \in {"", "envpw"}
    /\ program_ok \in BOOLEAN
    /\ SessionStart
    /\ args = NoArgs /\ pc = "idle" /\ ret = NoRet /\ typed = <<>>

Next ==
    \/ ToggleAcknowledge
    \/ Continue
    \/ Back
    \/ \E pw_input \in PwInputs : EnterApplication(pw_input)
    \/ Rerun
    \/ \E ex \in 1..Len(Program), e \in 1..Len(Entries) : Save(ex, e)

Spec == Init /\ [][Next]_vars

-----------------------------------------------------------------------------
(* What the inputs of a call say, read off the tables (not off the code). *)

IsEntry(i) == SegTable[i].kind # "blank"

\* the non-blank segments typed, in order
TypedEntries == SelectSeq(typed, IsEntry)

\* some non-blank segment is no integer
TypedMalformed == \E i \in 1..Len(typed) : SegTable[typed[i]].kind = "other"

\* the integers typed, in order (when no segment is malformed)
TypedReps == [i \in 1..Len(TypedEntries) |-> SegTable[TypedEntries[i]].val]

FirstN(seq, n) == IF n <= 0 THEN <<>> ELSE SubSeq(seq, 1, n)

ArgPresc == PrescRow(args.reps_prescribed)

CouldNotParse == Return(FALSE, "Could not parse reps_by_set")

PainReason == "Pain is Moderate/Severe"
BarbellReason == "Barbell working weight changed across sets"
RedReason == "Set quality marked Red"

HardStopStrings == {PainReason, BarbellReason, RedReason}

\* the reason of the highest-priority hard stop that holds, "" when none does
ExpectedStop ==
    IF args.pain \in {"Moderate", "Severe"} THEN PainReason
    ELSE IF EquipRow(args.equipment).barbell /\ ~args.barbell_same_weight
    THEN BarbellReason
    ELSE IF QualityRow(args.set_quality).colour = "Red" THEN RedReason
    ELSE ""

\* the matcher's answer for the arguments of the call
ArgMatch ==
    reps_meet_prescription(args.sets_prescribed, args.reps_prescribed,
                           args.reps_by_set)

\* the soft reasons the claim lists, in its order
ExpectedSoft ==
    (IF args.form = "Bad" THEN <<"Form marked Bad">> ELSE <<>>)
    \o (IF QualityRow(args.set_quality).colour = "Yellow"
        THEN <<"Set quality marked Yellow">> ELSE <<>>)
    \o (IF ~ArgMatch.ok THEN <<ArgMatch.reason>> ELSE <<>>)

-----------------------------------------------------------------------------
(* Claims about compliance_check, under SpecCheck. *)

\* C1: for every input compliance_check returns without raising, and its
\* verdict is one of PASS, WARN, FAIL.
C1_AlwaysAVerdict ==
    pc = "done" =>
        /\ ~ret.raised
        /\ ret.verdict \in {"PASS", "WARN", "FAIL"}

\* malformed reps text, unparsable prescription, negative sets_prescribed
C1_Witness ==
    /\ pc = "done"
    /\ TypedMalformed
    /\ args.reps_prescribed = <<"x">>
    /\ args.sets_prescribed < 0
    /\ ret.verdict = "WARN"

\* C2: a FAIL carries exactly one reason, that of the highest-priority hard
\* stop that holds (pain > barbell weight changed > Red); nothing else changes
\* the output; pain Severe always gives (FAIL, [pain reason]); "Barbell" with
\* the weight changed and pain None always gives (FAIL, [barbell reason]).
C2_FailReason ==
    pc = "done" =>
        /\ ret.verdict = "FAIL" => ExpectedStop # "" /\ ret.reasons = <<ExpectedStop>>
        /\ ExpectedStop # "" => ret = Verdict("FAIL", <<ExpectedStop>>)
        /\ args.pain = "Severe" => ret = Verdict("FAIL", <<PainReason>>)
        /\ ( /\ args.equipment = <<"B", "a", "r", "b", "e", "l", "l">>
             /\ ~args.barbell_same_weight
             /\ args.pain = "None" ) => ret = Verdict("FAIL", <<BarbellReason>>)

\* all three hard stops hold, with bad form and malformed reps: pain wins
C2_Witness ==
    /\ pc = "done"
    /\ args.pain = "Moderate"
    /\ EquipRow(args.equipment).barbell /\ ~args.barbell_same_weight
    /\ QualityRow(args.set_quality).colour = "Red"
    /\ args.form = "Bad" /\ TypedMalformed
    /\ ret = Verdict("FAIL", <<PainReason>>)

\* C3: the reason list is empty iff the verdict is PASS; a WARN has at least
\* one reason and no hard-stop reason; a FAIL has exactly one reason, a
\* hard-stop reason.
C3_VerdictShape ==
    pc = "done" =>
        /\ (ret.reasons = <<>>) <=> (ret.verdict = "PASS")
        /\ ret.verdict = "WARN" =>
              /\ Len(ret.reasons) >= 1
              /\ \A i \in 1..Len(ret.reasons) : ret.reasons[i] \notin HardStopStrings
        /\ ret.verdict = "FAIL" =>
              /\ Len(ret.reasons) = 1
              /\ ret.reasons[1] \in HardStopStrings

\* a WARN with three reasons
C3_Witness ==
    pc = "done" /\ ret.verdict = "WARN" /\ Len(ret.reasons) = 3

\* C4: with no hard stop the reasons are exactly "Form marked Bad" (form Bad),
\* then "Set quality marked Yellow" (quality Yellow), then the matcher's reason
\* (matcher fails); the verdict is WARN iff that list is non-empty, else PASS.
C4_SoftReasons ==
    (pc = "done" /\ ExpectedStop = "") =>
        /\ ret.reasons = ExpectedSoft
        /\ ret.verdict = IF ExpectedSoft # <<>> THEN "WARN" ELSE "PASS"
        /\ ( /\ args.form = "Bad"
             /\ args.set_quality = <<"Y", "e", "l", "l", "o", "w", " ", "(", "s", "l", "o", "w", "e", "d", ")">>
             /\ ArgMatch.ok ) =>
                ret = Verdict("WARN", <<"Form marked Bad", "Set quality marked Yellow">>)

\* the example of the claim: form Bad, Yellow (slowed), compliant reps
C4_Witness ==
    /\ pc = "done"
    /\ args.equipment = DUMBBELL /\ args.pain = "None"
    /\ args.form = "Bad" /\ args.set_quality = <<"Y", "e", "l", "l", "o", "w", " ", "(", "s", "l", "o", "w", "e", "d", ")">>
    /\ args.sets_prescribed = 2 /\ TypedReps = <<5, 5>> /\ ~TypedMalformed
    /\ ret = Verdict("WARN", <<"Form marked Bad", "Set quality marked Yellow">>)

\* a parse failure of the matcher: a malformed segment of reps_by_set, or,
\* once enough sets are logged for the prescription to be read, a low (before
\* the first "-") or a target that is no integer
ParseFailure ==
    \/ TypedMalformed
    \/ /\ Len(TypedReps) >= args.sets_prescribed
       /\ IF ArgPresc.dashes > 0 THEN ~ArgPresc.lowOk ELSE ~ArgPresc.numOk

-----------------------------------------------------------------------------
(* Claims about reps_meet_prescription, under SpecMatch. *)

\* the matcher's answer when the first sets_prescribed reps are held against
\* a minimum: the given reason when one of them is below it, else (true, "")
Judged(minimum, reason) ==
    LET first == FirstN(TypedReps, args.sets_prescribed)
    IN IF \E i \in 1..Len(first) : first[i] < minimum
       THEN Return(FALSE, reason)
       ELSE Return(TRUE, "")

\* reps_by_set supplies at least sets_prescribed integer entries
EnoughReps == ~TypedMalformed /\ Len(TypedReps) >= args.sets_prescribed

\* C5 as stated: with enough integer entries, a prescription with a "-" is
\* split at the first "-" and fails exactly when one of the first
\* sets_prescribed reps is below low (high is not enforced); any other
\* prescription is a single target and fails exactly when one of them is
\* below it; every other result is (true, "").  Stated for
\* sets_prescribed >= 1, where it already fails.
C5_AsStated ==
    (pc = "done" /\ EnoughReps /\ args.sets_prescribed >= 1) =>
        IF ArgPresc.dashes > 0
        THEN ArgPresc.lowOk =>
                ret = Judged(ArgPresc.low, "Some sets below minimum rep target")
        ELSE ArgPresc.numOk =>
                ret = Judged(ArgPresc.num, "Some sets below prescribed reps")

\* C5 as amended: the same for sets_prescribed >= 0 and a prescription with
\* exactly one "-"; a prescription with two or more "-" is never split and
\* gives (false, "Could not parse reps_by_set").
C5_RangeAndTarget ==
    (pc = "done" /\ EnoughReps /\ args.sets_prescribed >= 0) =>
        IF ArgPresc.dashes > 1 THEN ret = CouldNotParse
        ELSE IF ArgPresc.dashes = 1
        THEN ArgPresc.lowOk =>
                ret = Judged(ArgPresc.low, "Some sets below minimum rep target")
        ELSE ArgPresc.numOk =>
                ret = Judged(ArgPresc.num, "Some sets below prescribed reps")

\* reps above the range still match: 12 among the prescribed sets against 4-8
C5_Witness ==
    /\ pc = "done"
    /\ args.reps_prescribed = <<"4", "-", "8">>
    /\ args.sets_prescribed = 2 /\ ~TypedMalformed /\ TypedReps = <<12, 5>>
    /\ ret = Return(TRUE, "")

\* the text made of the first n entries of the typed text, each spelled
\* without surrounding blanks: what every text that agrees with the typed one
\* on its first n entries has in common with it
TruncatedText(n) ==
    LET first == FirstN(TypedEntries, n)
    IN JoinSegs([i \in 1..Len(first) |-> SegTable[SegTable[first[i]].same].text])

\* C6 as stated: for any sets_prescribed, a text with at least sets_prescribed
\* entries is judged as the text of its first sets_prescribed entries is,
\* whatever the later entries are (so any two texts that agree on those
\* entries are judged alike).  Stated for sets_prescribed >= 1, where it
\* already fails.
C6_AsStated ==
    ( /\ pc = "done"
      /\ Len(TypedEntries) >= args.sets_prescribed
      /\ args.sets_prescribed >= 1 ) =>
        ret = reps_meet_prescription(args.sets_prescribed, args.reps_prescribed,
                                     TruncatedText(args.sets_prescribed))

\* C6 as amended: the same for texts all of whose entries are integers (and
\* sets_prescribed >= 0).
C6_ExtraSetsIgnored ==
    (pc = "done" /\ EnoughReps /\ args.sets_prescribed >= 0) =>
        ret = reps_meet_prescription(args.sets_prescribed, args.reps_prescribed,
                                     TruncatedText(args.sets_prescribed))

\* two compliant sets and a third, extra set below the target: still a match
C6_Witness ==
    /\ pc = "done"
    /\ args.reps_prescribed = <<"5">>
    /\ args.sets_prescribed = 2 /\ ~TypedMalformed /\ TypedReps = <<5, 12, 3>>
    /\ ret = Return(TRUE, "")

\* C7: reps_by_set is read as its non-blank segments in order (blank ones
\* skipped, empty text the empty sequence); when all of them are integers and
\* there are fewer than sets_prescribed, the matcher returns
\* (false, "Fewer sets logged than prescribed") whatever reps_prescribed is.
C7_FewerSets ==
    (pc = "done" /\ ~TypedMalformed) =>
        /\ parse_reps(args.reps_by_set) = [raised |-> FALSE, val |-> TypedReps]
        /\ Len(TypedReps) < args.sets_prescribed =>
              ret = Return(FALSE, "Fewer sets logged than prescribed")

\* "5,,3"-like text with a blank segment, 3 sets prescribed, prescription "x"
C7_Witness ==
    /\ pc = "done"
    /\ Len(typed) = 3 /\ Len(TypedEntries) = 2 /\ ~TypedMalformed
    /\ args.sets_prescribed = 3
    /\ args.reps_prescribed = <<"x">>
    /\ ret = Return(FALSE, "Fewer sets logged than prescribed")

-----------------------------------------------------------------------------
(* Claims about the session, under Spec. *)

\* "; ".join of at most three reasons, written out
JoinedBySemicolon(reasons) ==
    IF Len(reasons) = 0 THEN ""
    ELSE IF Len(reasons) = 1 THEN reasons[1]
    ELSE IF Len(reasons) = 2 THEN reasons[1] \o "; " \o reasons[2]
    ELSE reasons[1] \o "; " \o reasons[2] \o "; " \o reasons[3]

\* the row holds the prescription of exercise ex, the widget values e and the
\* evaluator's output for the inputs the row itself records
RowAsSaved(row, ex, e) ==
    LET out == compliance_check(row.equipment, row.sets_prescribed,
                                row.reps_prescribed, row.reps_by_set, row.pain,
                                row.form, row.set_quality,
                                row.barbell_same_weight = 1)
    IN /\ \A k \in DOMAIN ex : row[k] = ex[k]
       /\ \A k \in DOMAIN e \ {"same"} : row[k] = e[k]
       /\ DOMAIN row = (DOMAIN ex) \cup (DOMAIN e \ {"same"})
                         \cup {"barbell_same_weight", "compliance", "reasons"}
       /\ row.barbell_same_weight \in {0, 1}
       /\ EquipRow(ex.equipment).barbell =>
             (row.barbell_same_weight = 1) = e.same
       /\ ~out.raised
       /\ row.compliance = out.verdict
       /\ row.reasons = JoinedBySemicolon(out.reasons)

\* one step of the session, as the claim allows it
LogStep ==
    /\ Len(log') >= Len(log)
    /\ SubSeq(log', 1, Len(log)) = log
    /\ (event'.type = "save") <=> (Len(log') = Len(log) + 1)
    /\ (event'.type # "save") => (log' = log)
    /\ log_exists => log_exists'
    /\ (event'.type = "save") =>
          RowAsSaved(log'[Len(log')], Program[event'.ex], Entries[event'.entry])

\* C9: the log is append-only: a save appends exactly one row at the end,
\* nothing else changes the rows (ensure_log_exists never rewrites the log);
\* the row holds the prescription, the entered results and the evaluator's
\* output for them, reasons joined by "; " in order.
C9_AppendOnlyLog == [][LogStep]_vars

\* two rows saved, the first a WARN with three reasons, still in place
C9_Witness ==
    /\ Len(log) = 2
    /\ event.type = "save"
    /\ log[1].compliance = "WARN"
    /\ log[1].reasons = "Form marked Bad; Set quality marked Yellow; Some sets below prescribed reps"
    /\ log[2].compliance = "FAIL"

\* the password the deployment is configured with
ConfiguredPassword ==
    IF secrets_pw # "" THEN secrets_pw
    ELSE IF env_pw # "" THEN env_pw
    ELSE "changeme"

GateInv ==
    /\ access_stage \in {"disclaimer", "password", "app"}
    /\ (access_stage = "app") <=> authed
    /\ authed => acknowledged
    /\ (log_exists \/ log # <<>> \/ event.type = "save") => authed

GateStep ==
    /\ (access_stage = "disclaimer" /\ access_stage' # "disclaimer") =>
          /\ access_stage' = "password"
          /\ event'.type = "continue"
          /\ acknowledged /\ acknowledged'
    /\ (access_stage = "password" /\ access_stage' = "disclaimer") =>
          event'.type = "back"
    /\ (access_stage' = "app" /\ access_stage # "app") =>
          /\ access_stage = "password"
          /\ event'.type = "enter"
          /\ event'.pw = ConfiguredPassword
          /\ authed'
    /\ (~authed /\ authed') => access_stage' = "app" /\ access_stage # "app"
    /\ ( /\ event'.type = "enter"
         /\ access_stage = "password"
         /\ event'.pw # ConfiguredPassword ) =>
          access_stage' = "password" /\ ~authed'
    /\ ( /\ event'.type = "enter"
         /\ access_stage = "password"
         /\ event'.pw = ConfiguredPassword ) =>
          access_stage' = "app" /\ authed'
    /\ authed => authed'
    /\ (event'.type = "save") => authed

\* C10: the gate starts in disclaimer with authed false; disclaimer -> password
\* only by Continue with the acknowledgement checked, password -> disclaimer
\* only by Back, -> app only by Enter with the configured password in stage
\* password; the app is rendered and a workout saved only when authed; a wrong
\* password leaves stage password and authed false; authed, once true, stays.
C10_AccessGate ==
    /\ (access_stage = "disclaimer" /\ ~authed)
    /\ []GateInv
    /\ [][GateStep]_vars

\* the gate has just been passed with the configured password
C10_Witness ==
    /\ authed /\ access_stage = "app" /\ acknowledged
    /\ event.type = "enter" /\ event.pw = ConfiguredPassword
    /\ secrets_pw # ""

====
